---- MODULE Spec2Model ----
(***************************************************************************)
(* The segmented sieve of Eratosthenes of primesieve:                      *)
(* src/src/soe/SieveOfEratosthenes.cpp (constructor, initEratAlgorithms,   *)
(* getByteRemainder, preSieve, crossOffMultiples, sieveSegment, finish,    *)
(* destructor).                                                            *)
(*                                                                         *)
(* The collaborators whose code is not in SieveOfEratosthenes.cpp          *)
(* (PreSieve, EratSmall, EratMedium, EratBig, imath.h, config.h) are       *)
(* modelled from their contracts.                                          *)
(*                                                                         *)
(* Scale.  TLC's integers are 32 bits wide and a sieve array of 1024 bytes *)
(* and more is out of reach of explicit state enumeration, so three        *)
(* magnitudes of the program are scaled down; the code is translated       *)
(* unchanged around them:                                                  *)
(*   UintBits     the width of uint_t   (32 in the program),               *)
(*                uint64_t is twice as wide;                               *)
(*   KiBScale     bytes per kilobyte / 8 (128 in the program), so that a   *)
(*                sieve size stays a multiple of 8 bytes;                  *)
(*   MaxSieveKiB  the largest sieve size in kilobytes (4096 in the         *)
(*                program).                                                *)
(***************************************************************************)
EXTENDS Integers, Sequences, FiniteSets, TLC

\* ------------------------------------------------------------------ scale
UintBits == 12
KiBScale == 4
MaxSieveKiB == 2

UINT_MOD == 2 ^ UintBits
UINT64_MOD == 2 ^ (2 * UintBits)
BytesPerKiB == 8 * KiBScale
\* @pre stop <= 2^64 - 2^32 * 10
StopLimit == UINT64_MOD - UINT_MOD * 10

\* -------------------------------------------------------------- constants
NUMBERS_PER_BYTE == 30
\* const uint_t SieveOfEratosthenes::bitValues_[8]; bitValues_[i] of the
\* program is BitValue(i) here (TLA+ sequences count from 1)
bitValues_ == <<7, 11, 13, 17, 19, 23, 29, 31>>
BitValue(i) == bitValues_[i + 1]

\* config::FACTOR_ERATSMALL, config::FACTOR_ERATMEDIUM as <<numerator,
\* denominator>>
FACTOR_ERATSMALL == <<1, 2>>
FACTOR_ERATMEDIUM == <<5, 1>>

NULL == 0
\* the addresses operator new returns for the four objects the
\* orchestrator owns
AddrSmall == 1
AddrMedium == 2
AddrBig == 3
AddrSieve == 4
\* the content of a byte that was allocated and never written
UNINIT == -1

\* ---------------------------------------------------------------- integers
U64(x) == x % UINT64_MOD
U32(x) == x % UINT_MOD

\* static_cast<uint_t>(size * factor) for a double factor
TimesFactorUnscaled(size, factor) == U32(size)
TimesFactor(size, factor) == U32((size * factor[1]) \div factor[2])

\* imath.h isqrt: the integer square root
isqrt(n) == CHOOSE r \in 0..UINT_MOD : r * r <= n /\ n < (r + 1) * (r + 1)

\* the conversion of a uint_t to int, the template argument of
\* floorPowerOf2<int>(sieveSize): a value with the top bit set is negative
ToInt(x) == IF x >= UINT_MOD \div 2 THEN x - UINT_MOD ELSE x

\* imath.h floorPowerOf2: the greatest power of two <= x.  Below 1 there
\* is no such power; the value is 0 there, and the one use of it (line 67)
\* hands it to getInBetween(1, ., 4096), which gives 1 for every value
\* below 1
RECURSIVE floorPowerOf2(_)
floorPowerOf2(x) ==
  IF x < 1 THEN 0
  ELSE IF x = 1 THEN 1 ELSE 2 * floorPowerOf2(x \div 2)

\* imath.h getInBetween
getInBetween(min, value, max) ==
  IF value < min THEN min
  ELSE IF value > max THEN max
  ELSE value

\* a & b on non-negative integers
RECURSIVE BitAnd(_, _)
BitAnd(a, b) ==
  IF a = 0 \/ b = 0 THEN 0
  ELSE (a % 2) * (b % 2) + 2 * BitAnd(a \div 2, b \div 2)

\* a & ~b for a byte a and a non-negative int b
BitAndNot(a, b) == a - BitAnd(a, b)

\* 0xff << i
ShiftLeftFF(i) == 255 * (2 ^ i)

\* bit i of byte b is set
BitSet(b, i) == (b \div (2 ^ i)) % 2 = 1

\* trial division up to a bound that is at least the square root of n
DivisorBound(n) ==
  IF n < 4096 THEN 64
  ELSE IF n < 65536 THEN 256
  ELSE 2 ^ UintBits
IsPrime(n) ==
  /\ n >= 2
  /\ \A d \in 2..DivisorBound(n) : d * d > n \/ n % d # 0

\* the primes a sieving prime can be: those below 2^UintBits
SmallPrimes ==
  {p \in 2..UINT_MOD :
     \A d \in 2..(2 ^ ((UintBits + 1) \div 2)) : d * d > p \/ p % d # 0}

\* ------------------------------------------------------- getByteRemainder
getByteRemainderZeroOnly(n) ==
  LET remainder == n % NUMBERS_PER_BYTE
  IN  IF remainder < 1 THEN remainder + NUMBERS_PER_BYTE ELSE remainder
getByteRemainder(n) ==
  LET remainder == n % NUMBERS_PER_BYTE
  IN  IF remainder <= 1 THEN remainder + NUMBERS_PER_BYTE ELSE remainder

\* ------------------------------------------------------------------ state
VARIABLES
  args,          \* the constructor's arguments: start, stop, sieveSize, preSieve
  fault,         \* the allocation that fails in this construction (NULL: none)
  pc,            \* the position of the caller and of finish()
  thrown,        \* the exception that left the constructor, "none" if none
  heap,          \* the live heap objects, by address
  freed,         \* the addresses handed to delete, in order
  start_, stop_, sqrtStop_, preSieve_,
  sieveSize_, segmentLow_, segmentHigh_,
  eratSmall_, eratMedium_, eratBig_, sieve_,
  last,          \* finish() has left its loop and sieves the last segment
  emitted,       \* the calls segmentProcessed(sieve_, sieveSize_) of this run
  runs,          \* the runs completed before this one, for the same range
  ops            \* the calls made on the sieve array in this run, in order

vars == <<args, fault, pc, thrown, heap, freed, start_, stop_, sqrtStop_,
          preSieve_, sieveSize_, segmentLow_, segmentHigh_, eratSmall_,
          eratMedium_, eratBig_, sieve_, last, emitted, runs, ops>>

\* ------------------------------------------------------------------- heap
\* memory is [heap |-> live objects by address, freed |-> deleted addresses]
EmptyHeap == [a \in {} |-> 0]

\* p = new T(...): the allocation throws when it is the one the fault names,
\* and then the pointer is not assigned
New(mem, addr, object, flt) ==
  IF flt = addr
  THEN [p |-> NULL, mem |-> mem, thrown |-> TRUE]
  ELSE [p |-> addr,
        mem |-> [mem EXCEPT !.heap =
                   [a \in DOMAIN mem.heap \cup {addr} |->
                      IF a = addr THEN object ELSE mem.heap[a]]],
        thrown |-> FALSE]

\* delete p: nothing for NULL
Delete(mem, p) ==
  IF p = NULL THEN mem
  ELSE [heap |-> [a \in DOMAIN mem.heap \ {p} |-> mem.heap[a]],
        freed |-> Append(mem.freed, p)]

\* the effective upper magnitude bound of a tier: the limit it was
\* constructed with, or less (by cut)
EffectiveLimit(limit, cut) == IF limit > cut THEN limit - cut ELSE limit
\* EratSmall / EratMedium / EratBig (stop, sieveSize, limit): limit is the
\* limit the orchestrator asks for, effective the bound the tier keeps
Tier(stop, sieveSize, limit, cut) ==
  [stop |-> stop, sieveSize |-> sieveSize, limit |-> limit,
   effective |-> EffectiveLimit(limit, cut)]
\* tier->getLimit()
getLimit(mem, p) == mem.heap[p].effective

\* --------------------------------------------------- initEratAlgorithms
\* the catch (...) block: three deletes, then rethrow
CatchBlockLeaksMedium(mem, small, medium, big) ==
  Delete(Delete(mem, small), big)
CatchBlock(mem, small, medium, big) ==
  Delete(Delete(Delete(mem, small), medium), big)

\* the tests that guard the three new expressions
NeedsSmallAlways(sqrtStop, preLimit) == TRUE
NeedsSmall(sqrtStop, preLimit) == sqrtStop > preLimit
NeedsNextAtLimit(sqrtStop, limit) == sqrtStop >= limit
NeedsNext(sqrtStop, limit) == sqrtStop > limit

initEratAlgorithms(sqrtStop, preLimit, stop, sieveSize, mem0, flt, cut) ==
  LET esLimit == TimesFactor(sieveSize, FACTOR_ERATSMALL)
      emLimit == TimesFactor(sieveSize, FACTOR_ERATMEDIUM)
      none(mem, thr) == [p |-> NULL, mem |-> mem, thrown |-> thr]
      s == IF NeedsSmall(sqrtStop, preLimit)
           THEN New(mem0, AddrSmall, Tier(stop, sieveSize, esLimit, cut), flt)
           ELSE none(mem0, FALSE)
      m == IF s.p # NULL /\ NeedsNext(sqrtStop, getLimit(s.mem, s.p))
           THEN New(s.mem, AddrMedium, Tier(stop, sieveSize, emLimit, cut), flt)
           ELSE none(s.mem, s.thrown)
      b == IF m.p # NULL /\ NeedsNext(sqrtStop, getLimit(m.mem, m.p))
           THEN New(m.mem, AddrBig, Tier(stop, sieveSize, sqrtStop, cut),
                    flt)
           ELSE none(m.mem, m.thrown)
  IN  [eratSmall |-> s.p, eratMedium |-> m.p, eratBig |-> b.p,
       thrown |-> b.thrown,
       mem |-> IF b.thrown THEN CatchBlock(b.mem, s.p, m.p, b.p) ELSE b.mem]

\* ---------------------------------------------------------- constructor
\* sieveSize_ in bytes: a power of 2 between 1 and the maximum, in kilobytes
NormalizedSieveSizeUnclamped(sieveSize) ==
  floorPowerOf2(ToInt(sieveSize)) * BytesPerKiB
NormalizedSieveSize(sieveSize) ==
  getInBetween(1, floorPowerOf2(ToInt(sieveSize)), MaxSieveKiB) * BytesPerKiB

\* the precondition tests of the constructor: the message thrown, or "none"
\* PreSieve::PreSieve(limit), the member initialiser preSieve_(preSieve):
\* a limit outside [13, 23] is a configuration error
PreSieveInit(limit) ==
  IF limit < 13 \/ limit > 23 THEN "primesieve_error" ELSE "none"

CheckArgsStartOnly(start, stop) ==
  IF start < 7 THEN "primesieve_error" ELSE "none"
CheckArgs(start, stop) ==
  IF start < 7 THEN "primesieve_error"
  ELSE IF start > stop THEN "primesieve_error"
  ELSE "none"

\* segmentLow_ = start_ - getByteRemainder(start_)
InitialSegmentLowPlainModulo(start) == U64(start - (start % NUMBERS_PER_BYTE))
InitialSegmentLow(start) == U64(start - getByteRemainder(start))
\* segmentLow_ + sieveSize_ * NUMBERS_PER_BYTE + 1
SegmentHighOfNoPlusOne(low, size) == U64(low + U32(size * NUMBERS_PER_BYTE))
SegmentHighOf(low, size) == U64(low + U32(size * NUMBERS_PER_BYTE) + 1)

\* new uint8_t[n]
NewArray(n) == [j \in 0..(n - 1) |-> UNINIT]

\* the arguments the model constructs orchestrators with
Ranges ==
  { \* one byte, and the ends of a 30-block
    <<7, 7>>, <<7, 31>>, <<10, 10>>, <<13, 23>>, <<24, 28>>, <<29, 30>>,
    <<30, 60>>, <<31, 91>>, <<32, 62>>, <<59, 122>>, <<97, 101>>, <<100, 210>>,
    <<200, 211>>,
    \* one number that is no prime: nothing to report
    <<30, 30>>, <<32, 32>>, <<2790, 2790>>,
    \* the end of the first segment
    <<7, 960>>, <<8, 961>>, <<9, 962>>, <<500, 963>>, <<900, 1921>>,
    <<20, 1922>>,
    \* several segments
    <<7, 2000>>, <<100, 3000>>, <<961, 2881>>, <<1000, 1050>>, <<23, 4000>>,
    \* ranges that need the medium and the big tier
    <<25900, 26100>>, <<103000, 103200>>, <<26000, 28000>>,
    \* the top of the range
    <<StopLimit - 200, StopLimit>>, <<StopLimit - 50, StopLimit + 1>>,
    <<StopLimit - 2000, StopLimit>>,
    \* not a range
    <<0, 10>>, <<6, 100>>, <<50, 20>>, <<3000, 2000>>, <<5, 3>> }
\* in kilobytes; the last three are the greatest int and the two ends of
\* the uint_t values that are negative as an int
SieveSizes ==
  {0, 1, 2, 3, 5, UINT_MOD \div 2 - 1, UINT_MOD \div 2, UINT_MOD - 1}
\* 12 and 24 are outside the documented [13, 23]
PreSieveLimits == {12, 13, 19, 23, 24}
\* how far below the requested limit getLimit() of a tier is
LimitCuts == {0, 2}
\* the allocation that fails, NULL for none
Faults == {NULL, AddrSmall, AddrMedium, AddrBig, AddrSieve}

SieveOfEratosthenes(flt, cut) ==
  /\ pc = "new"
  /\ start_' = args.start
  /\ stop_' = args.stop
  /\ sqrtStop_' = U32(isqrt(args.stop))
  /\ preSieve_' = args.preSieve
  /\ last' = FALSE
  /\ emitted' = <<>>
  /\ ops' = <<>>
  /\ UNCHANGED <<args, runs>>
  /\ IF PreSieveInit(args.preSieve) # "none"
        \/ CheckArgs(args.start, args.stop) # "none"
     THEN /\ thrown' = IF PreSieveInit(args.preSieve) # "none"
                       THEN PreSieveInit(args.preSieve)
                       ELSE CheckArgs(args.start, args.stop)
          /\ pc' = "failed"
          /\ eratSmall_' = NULL /\ eratMedium_' = NULL /\ eratBig_' = NULL
          /\ UNCHANGED <<fault, heap, freed, sieveSize_, segmentLow_,
                         segmentHigh_, sieve_>>
     ELSE LET size == NormalizedSieveSize(args.sieveSize)
              low == InitialSegmentLow(args.start)
              init == initEratAlgorithms(U32(isqrt(args.stop)), args.preSieve,
                                         args.stop, size,
                                         [heap |-> heap, freed |-> freed],
                                         flt, cut)
              buf == New(init.mem, AddrSieve, NewArray(size), flt)
          IN  /\ sieveSize_' = size
              /\ segmentLow_' = low
              /\ segmentHigh_' = SegmentHighOf(low, size)
              /\ eratSmall_' = init.eratSmall
              /\ eratMedium_' = init.eratMedium
              /\ eratBig_' = init.eratBig
              /\ IF init.thrown
                 THEN /\ thrown' = "bad_alloc"
                      /\ fault' = flt
                      /\ pc' = "failed"
                      /\ heap' = init.mem.heap
                      /\ freed' = init.mem.freed
                      /\ UNCHANGED sieve_
                 ELSE /\ thrown' = IF buf.thrown THEN "bad_alloc" ELSE "none"
                      /\ fault' = IF buf.thrown THEN flt ELSE NULL
                      /\ pc' = IF buf.thrown THEN "failed" ELSE "finish"
                      /\ heap' = buf.mem.heap
                      /\ freed' = buf.mem.freed
                      /\ sieve_' = buf.p

\* -------------------------------------------------------------- PreSieve
\* the byte whose set bits are the bits in the set bits (the set is bound
\* to s so that it is evaluated once, not once for each of the 8 bits)
ByteOf(bits) ==
  LET b(s, i) == IF i \in s THEN 2 ^ i ELSE 0
      byte(s) == b(s, 0) + b(s, 1) + b(s, 2) + b(s, 3)
                 + b(s, 4) + b(s, 5) + b(s, 6) + b(s, 7)
  IN  CHOOSE v \in {byte(s) : s \in {bits}} : TRUE

\* the number bit i of byte j stands for, in a segment that starts at low
NumberOf(low, j, i) == low + NUMBERS_PER_BYTE * j + BitValue(i)

\* the primes whose multiples the pre-sieve pattern has crossed off
PreSievePrimes(limit) == {p \in {7, 11, 13, 17, 19, 23} : p <= limit}

\* PreSieve::doIt(sieve, sieveSize, segmentLow): overwrites the first
\* sieveSize bytes with the pattern of the multiples of the primes <= limit
\* (these primes themselves are multiples, and crossed off)
doIt(buf, size, low, limit) ==
  LET primes == PreSievePrimes(limit)
      pattern(j) ==
        ByteOf({i \in 0..7 : \A p \in primes : NumberOf(low, j, i) % p # 0})
  IN  [j \in DOMAIN buf |-> IF j < size THEN pattern(j) ELSE buf[j]]

\* while (bitValues_[i] < getByteRemainder(start_)) i++;  from i
RECURSIVE LowerMaskLoop(_, _)
LowerMaskLoop(i, start) ==
  IF BitValue(i) < getByteRemainder(start)
  THEN LowerMaskLoop(i + 1, start)
  ELSE i

\* sieve_[0] after the lines that unset the bits < start_
LowerMaskKeepsPattern(byte0, start, limit) ==
  BitAnd(byte0, ShiftLeftFF(LowerMaskLoop(0, start)))
LowerMaskOffByOne(byte0, start, limit) ==
  BitAnd(IF start <= limit THEN 255 ELSE byte0,
         ShiftLeftFF(IF LowerMaskLoop(0, start) = 0 THEN 0
                     ELSE LowerMaskLoop(0, start) - 1))
LowerMask(byte0, start, limit) ==
  BitAnd(IF start <= limit THEN 255 ELSE byte0,
         ShiftLeftFF(LowerMaskLoop(0, start)))

\* if (segmentLow_ <= start_)
IsFirstSegmentAlways(low, start) == TRUE
IsFirstSegment(low, start) == low <= start

\* SieveOfEratosthenes::preSieve()
preSieve(buf, size, low, start, limit) ==
  LET filled == doIt(buf, size, low, limit)
  IN  IF IsFirstSegment(low, start)
      THEN [filled EXCEPT ![0] = LowerMask(filled[0], start, limit)]
      ELSE filled

\* ------------------------------------------------------------ the tiers
\* the sieving primes: above the pre-sieve limit, up to sqrt(stop)
SievingPrimes(limit, sqrtStop) ==
  {p \in SmallPrimes : limit < p /\ p <= sqrtStop}

\* tier->crossOff(sieve, ...): clears the bits of the multiples >= p * p of
\* the tier's sieving primes p in the first size bytes
crossOff(buf, size, low, primes) ==
  LET high == low + size * NUMBERS_PER_BYTE + 1
      from(p) == IF p * p > low THEN p * p ELSE low
      multiples(p) == {p * k : k \in ((from(p) + p - 1) \div p)..(high \div p)}
      byte(crossed, j) ==
        ByteOf({i \in 0..7 : BitSet(buf[j], i)
                               /\ NumberOf(low, j, i) \notin crossed})
      \* the multiples are bound to crossed so that they are computed once
      sieved == {[j \in DOMAIN buf |->
                   IF j < size THEN byte(crossed, j) ELSE buf[j]] :
                 crossed \in {UNION {multiples(p) : p \in primes}}}
  IN  CHOOSE f \in sieved : TRUE

\* the sieving primes each tier holds (SieveOfEratosthenes::sieve(prime)
\* gives a prime to the first tier whose limit it does not exceed)
SmallPrimesOf(h, small, limit, sqrtStop) ==
  {p \in SievingPrimes(limit, sqrtStop) : p <= h[small].effective}
MediumPrimesOf(h, small, medium, limit, sqrtStop) ==
  {p \in SievingPrimes(limit, sqrtStop) :
     p > h[small].effective /\ p <= h[medium].effective}
BigPrimesOf(h, medium, limit, sqrtStop) ==
  {p \in SievingPrimes(limit, sqrtStop) : p > h[medium].effective}

\* ---------------------------------------------------------------- finish
\* the number of bytes of an array
ArraySize(a) == Cardinality(DOMAIN a)

\* the position after crossOffMultiples() returns
AfterCrossOffSkipsCallback == IF last THEN "mask" ELSE "advance"
AfterCrossOff == IF last THEN "mask" ELSE "segmentProcessed"

\* one call on the sieve array: its name, and the segment it acted on
Call(name) == [op |-> name, low |-> segmentLow_, size |-> sieveSize_]

finishUnchanged ==
  UNCHANGED <<args, fault, thrown, freed, start_, stop_, sqrtStop_,
              preSieve_, eratSmall_, eratMedium_, eratBig_, sieve_, runs>>

\* while (segmentHigh_ < stop_): the loop is entered
LoopTestInclusive(high, stop) == high <= stop
LoopTest(high, stop) == high < stop

LoopEnter ==
  /\ pc = "finish"
  /\ LoopTest(segmentHigh_, stop_)
  /\ pc' = "preSieve"
  /\ UNCHANGED <<heap, sieveSize_, segmentLow_, segmentHigh_, last, emitted,
                 ops>>
  /\ finishUnchanged

\* static_cast<uint_t>((stop_ - remainder) - segmentLow_) / NUMBERS_PER_BYTE + 1
LastSieveSizeNoPlusOne(stop, low) ==
  U32(U32(U64(U64(stop - getByteRemainder(stop)) - low)) \div NUMBERS_PER_BYTE)
LastSieveSizeNarrowCast(stop, low) ==
  U32((U64(U64(stop - getByteRemainder(stop)) - low) % (2 ^ (UintBits \div 2)))
      \div NUMBERS_PER_BYTE + 1)
LastSieveSize(stop, low) ==
  U32(U32(U64(U64(stop - getByteRemainder(stop)) - low)) \div NUMBERS_PER_BYTE
      + 1)

\* the loop is left: the size and the end of the last segment
LoopExit ==
  /\ pc = "finish"
  /\ ~LoopTest(segmentHigh_, stop_)
  /\ sieveSize_' = LastSieveSize(stop_, segmentLow_)
  /\ segmentHigh_' = SegmentHighOf(segmentLow_, sieveSize_')
  /\ last' = TRUE
  /\ pc' = IF sieveSize_' > ArraySize(heap[sieve_]) THEN "undefined"
           ELSE "preSieve"
  /\ UNCHANGED <<heap, segmentLow_, emitted, ops>>
  /\ finishUnchanged

PreSieveSegment ==
  /\ pc = "preSieve"
  /\ heap' = [heap EXCEPT ![sieve_] =
                preSieve(@, sieveSize_, segmentLow_, start_, preSieve_)]
  /\ pc' = "crossOffMultiples"
  /\ ops' = Append(ops, Call("preSieve"))
  /\ UNCHANGED <<sieveSize_, segmentLow_, segmentHigh_, last, emitted>>
  /\ finishUnchanged

CrossOffSmall ==
  /\ pc = "crossOffMultiples"
  /\ IF eratSmall_ # NULL
     THEN /\ \E primes \in {SmallPrimesOf(heap, eratSmall_, preSieve_,
                                             sqrtStop_)} :
               heap' = [heap EXCEPT ![sieve_] =
                          crossOff(@, sieveSize_, segmentLow_, primes)]
          /\ ops' = Append(ops, Call("eratSmall"))
          /\ pc' = "crossOffMedium"
     ELSE /\ pc' = AfterCrossOff
          /\ UNCHANGED <<heap, ops>>
  /\ UNCHANGED <<sieveSize_, segmentLow_, segmentHigh_, last, emitted>>
  /\ finishUnchanged

CrossOffMedium ==
  /\ pc = "crossOffMedium"
  /\ IF eratMedium_ # NULL
     THEN /\ \E primes \in {MediumPrimesOf(heap, eratSmall_, eratMedium_,
                                              preSieve_, sqrtStop_)} :
               heap' = [heap EXCEPT ![sieve_] =
                          crossOff(@, sieveSize_, segmentLow_, primes)]
          /\ ops' = Append(ops, Call("eratMedium"))
          /\ pc' = "crossOffBig"
     ELSE /\ pc' = AfterCrossOff
          /\ UNCHANGED <<heap, ops>>
  /\ UNCHANGED <<sieveSize_, segmentLow_, segmentHigh_, last, emitted>>
  /\ finishUnchanged

CrossOffBig ==
  /\ pc = "crossOffBig"
  /\ IF eratBig_ # NULL
     THEN /\ \E primes \in {BigPrimesOf(heap, eratMedium_, preSieve_,
                                           sqrtStop_)} :
               heap' = [heap EXCEPT ![sieve_] =
                          crossOff(@, sieveSize_, segmentLow_, primes)]
          /\ ops' = Append(ops, Call("eratBig"))
     ELSE UNCHANGED <<heap, ops>>
  /\ pc' = AfterCrossOff
  /\ UNCHANGED <<sieveSize_, segmentLow_, segmentHigh_, last, emitted>>
  /\ finishUnchanged

\* for (i = 0; i < 8; i++) if (bitValues_[i] > remainder) break;  from i
RECURSIVE UpperMaskLoopInclusive(_, _)
UpperMaskLoopInclusive(i, remainder) ==
  IF i < 8 /\ ~(BitValue(i) >= remainder)
  THEN UpperMaskLoopInclusive(i + 1, remainder)
  ELSE i
RECURSIVE UpperMaskLoop(_, _)
UpperMaskLoop(i, remainder) ==
  IF i < 8 /\ ~(BitValue(i) > remainder)
  THEN UpperMaskLoop(i + 1, remainder)
  ELSE i

\* sieve_[sieveSize_ - 1] &= ~(0xff << i)
UpperMaskOffByOne(byte, stop) ==
  BitAndNot(byte, ShiftLeftFF(UpperMaskLoop(0, getByteRemainder(stop)) + 1))
UpperMask(byte, stop) ==
  BitAndNot(byte, ShiftLeftFF(UpperMaskLoop(0, getByteRemainder(stop))))

\* for (uint_t j = sieveSize_; j % 8 != 0; j++) sieve_[j] = 0;
PaddingNone(size) == {}
Padding(size) == {j \in size..(size + 7) : j < ((size + 7) \div 8) * 8}

\* the lines of finish() that unset the bits > stop_ and zero the padding
MaskStop ==
  /\ pc = "mask"
  /\ IF Padding(sieveSize_) \subseteq DOMAIN heap[sieve_]
     THEN /\ heap' = [heap EXCEPT ![sieve_] =
                        [j \in DOMAIN @ |->
                           IF j = sieveSize_ - 1 THEN UpperMask(@[j], stop_)
                           ELSE IF j \in Padding(sieveSize_) THEN 0
                           ELSE @[j]]]
          /\ pc' = "segmentProcessed"
     ELSE /\ pc' = "undefined"
          /\ UNCHANGED heap
  /\ UNCHANGED <<sieveSize_, segmentLow_, segmentHigh_, last, emitted, ops>>
  /\ finishUnchanged

\* segmentProcessed(sieve_, sieveSize_)
SegmentProcessed ==
  /\ pc = "segmentProcessed"
  /\ emitted' = Append(emitted, [low |-> segmentLow_, size |-> sieveSize_,
                                 sieve |-> heap[sieve_]])
  /\ ops' = Append(ops, Call("segmentProcessed"))
  /\ pc' = IF last THEN "done" ELSE "advance"
  /\ UNCHANGED <<heap, sieveSize_, segmentLow_, segmentHigh_, last>>
  /\ finishUnchanged

\* sieveSize_ * NUMBERS_PER_BYTE, the stride of the loop of finish()
StrideOverlapping(size) == U32((size - 1) * NUMBERS_PER_BYTE)
Stride(size) == U32(size * NUMBERS_PER_BYTE)

\* segmentLow_ += sieveSize_ * NUMBERS_PER_BYTE, and segmentHigh_
Advance ==
  /\ pc = "advance"
  /\ segmentLow_' = U64(segmentLow_ + Stride(sieveSize_))
  /\ segmentHigh_' = U64(segmentHigh_ + Stride(sieveSize_))
  /\ pc' = "finish"
  /\ UNCHANGED <<heap, sieveSize_, last, emitted, ops>>
  /\ finishUnchanged

\* ~SieveOfEratosthenes()
Destructor ==
  /\ pc = "done"
  /\ LET mem == Delete(Delete(Delete(Delete([heap |-> heap, freed |-> freed],
                         eratSmall_), eratMedium_), eratBig_), sieve_)
     IN  /\ heap' = mem.heap
         /\ freed' = mem.freed
  /\ pc' = "destroyed"
  /\ UNCHANGED <<args, fault, thrown, start_, stop_, sqrtStop_, preSieve_,
                 sieveSize_, segmentLow_, segmentHigh_, eratSmall_,
                 eratMedium_, eratBig_, sieve_, last, emitted, runs, ops>>

\* ------------------------------------------------------------ the caller
\* the numbers whose bits are set in one emitted segment
SegmentNumbers(seg) ==
  {NumberOf(seg.low, j, i) : <<j, i>> \in
     {<<j, i>> \in (0..(seg.size - 1)) \X (0..7) : BitSet(seg.sieve[j], i)}}
\* ... and in all of them
EmittedNumbers(segs) ==
  UNION {SegmentNumbers(segs[k]) : k \in 1..Len(segs)}

\* the caller sieves the same range a second time, with another sieve size
NextRun(size) ==
  /\ pc = "destroyed"
  /\ runs = <<>>
  /\ NormalizedSieveSize(size) # NormalizedSieveSize(args.sieveSize)
  /\ runs' = Append(runs, [sieveSize |-> NormalizedSieveSize(args.sieveSize),
                           segments |-> Len(emitted),
                           numbers |-> EmittedNumbers(emitted)])
  /\ args' = [args EXCEPT !.sieveSize = size]
  /\ pc' = "new"
  /\ fault' = NULL
  /\ thrown' = "none"
  /\ heap' = EmptyHeap
  /\ freed' = <<>>
  /\ start_' = 0 /\ stop_' = 0 /\ sqrtStop_' = 0 /\ preSieve_' = 0
  /\ sieveSize_' = 0 /\ segmentLow_' = 0 /\ segmentHigh_' = 0
  /\ eratSmall_' = NULL /\ eratMedium_' = NULL /\ eratBig_' = NULL
  /\ sieve_' = NULL
  /\ last' = FALSE
  /\ emitted' = <<>>
  /\ ops' = <<>>

Init ==
  /\ args \in {[start |-> r[1], stop |-> r[2], sieveSize |-> s, preSieve |-> l] :
                 r \in Ranges, s \in SieveSizes, l \in PreSieveLimits}
  /\ pc = "new"
  /\ fault = NULL
  /\ thrown = "none"
  /\ heap = EmptyHeap
  /\ freed = <<>>
  /\ start_ = 0 /\ stop_ = 0 /\ sqrtStop_ = 0 /\ preSieve_ = 0
  /\ sieveSize_ = 0 /\ segmentLow_ = 0 /\ segmentHigh_ = 0
  /\ eratSmall_ = NULL /\ eratMedium_ = NULL /\ eratBig_ = NULL
  /\ sieve_ = NULL
  /\ last = FALSE
  /\ emitted = <<>>
  /\ runs = <<>>
  /\ ops = <<>>

Next ==
  \/ \E flt \in Faults, cut \in LimitCuts : SieveOfEratosthenes(flt, cut)
  \/ LoopEnter
  \/ LoopExit
  \/ PreSieveSegment
  \/ CrossOffSmall
  \/ CrossOffMedium
  \/ CrossOffBig
  \/ MaskStop
  \/ SegmentProcessed
  \/ Advance
  \/ Destructor
  \/ \E size \in {1, MaxSieveKiB} : NextRun(size)

Spec == Init /\ [][Next]_vars

\* finish() is straight-line code around one loop: once called it keeps
\* taking its next step
finishStep ==
  \/ LoopEnter
  \/ LoopExit
  \/ PreSieveSegment
  \/ CrossOffSmall
  \/ CrossOffMedium
  \/ CrossOffBig
  \/ MaskStop
  \/ SegmentProcessed
  \/ Advance
FairSpec == Spec /\ WF_vars(finishStep)

\* ---------------------------------------------------------------- claims
\* the documented precondition on stop (7 <= start <= stop is enforced by
\* the constructor)
StopInRange == args.stop <= StopLimit

\* the size of the sieve array as allocated by the constructor
AllocatedSize == NormalizedSieveSize(args.sieveSize)

\* C1: when finish() has returned, the numbers whose bits are set in the
\* emitted segments are exactly the primes of [start, stop], the primes up
\* to the pre-sieve limit included.
C1_EmittedAreThePrimes ==
  (pc = "done" /\ StopInRange) =>
    EmittedNumbers(emitted) = {n \in start_..stop_ : IsPrime(n)}

\* a finished run over several segments with all three tiers, and one that
\* starts at or below the pre-sieve limit and reports those small primes
C1_Witness ==
  /\ pc = "done" /\ StopInRange
  /\ Len(emitted) >= 2
  /\ start_ <= preSieve_
  /\ eratSmall_ # NULL
  /\ {7, 11, 13} \subseteq EmittedNumbers(emitted)

\* C2: the emitted segments are contiguous and ascending: each starts
\* sieveSizeBytes*30 above the one before, exactly where that one ended,
\* and every segment but the last has the configured size.
C2_SegmentsContiguous ==
  StopInRange =>
    \A k \in 1..(Len(emitted) - 1) :
      /\ emitted[k].size = AllocatedSize
      /\ emitted[k + 1].low = emitted[k].low + AllocatedSize * NUMBERS_PER_BYTE
      /\ emitted[k + 1].low > emitted[k].low
      /\ emitted[k + 1].size <= AllocatedSize

\* three segments, the last one shorter than the others
C2_Witness ==
  /\ pc = "done" /\ StopInRange
  /\ Len(emitted) >= 3
  /\ emitted[Len(emitted)].size < AllocatedSize

\* C3: no emitted segment has a bit set for a number below start, and only
\* the first segment starts at or below start; in the first segment the
\* lower mask leaves no bit below start in byte 0 whatever byte the
\* pattern put there.
C3_NothingBelowStart ==
  StopInRange =>
    /\ \A k \in 1..Len(emitted) :
         /\ \A n \in SegmentNumbers(emitted[k]) : n >= start_
         /\ k > 1 => emitted[k].low > start_
         /\ k = 1 => emitted[k].low <= start_
    /\ (pc = "crossOffMultiples" /\ emitted = <<>>) =>
         \A byte0 \in 0..255 :
           LET masked == LowerMask(byte0, start_, preSieve_)
           IN  \A i \in 0..7 :
                 BitSet(masked, i) => NumberOf(segmentLow_, 0, i) >= start_

\* a first segment whose pattern had a prime below start in byte 0, above
\* the pre-sieve limit, and another segment after it
C3_Witness ==
  /\ pc = "done" /\ StopInRange
  /\ Len(emitted) >= 2
  /\ \E n \in (emitted[1].low + 7)..(start_ - 1) : IsPrime(n) /\ n > preSieve_
  /\ SegmentNumbers(emitted[1]) # {}

\* C4: no emitted segment has a bit set for a number above stop, and in the
\* last segment the bytes from its length up to the next multiple of 8 are
\* zero; the upper mask leaves no bit above stop in the last byte whatever
\* byte was there.
C4_NothingAboveStop ==
  StopInRange =>
    /\ \A k \in 1..Len(emitted) :
         \A n \in SegmentNumbers(emitted[k]) : n <= stop_
    /\ pc = "mask" =>
         \A byte \in 0..255 :
           LET masked == UpperMask(byte, stop_)
           IN  \A i \in 0..7 :
                 BitSet(masked, i) =>
                   NumberOf(segmentLow_, sieveSize_ - 1, i) <= stop_
    /\ pc = "done" =>
         \A j \in Padding(emitted[Len(emitted)].size) :
           emitted[Len(emitted)].sieve[j] = 0

\* a last segment that has padding bytes, in a byte of which the pattern
\* has a prime above stop
C4_Witness ==
  /\ pc = "done" /\ StopInRange
  /\ Len(emitted) >= 2
  /\ Padding(emitted[Len(emitted)].size) # {}
  /\ \E n \in (stop_ + 1)..(stop_ + 29 - getByteRemainder(stop_)) : IsPrime(n)

\* C5: with start < 7 or start > stop the constructor throws
\* primesieve_error, nothing was allocated (no tier, no sieve array), and no
\* segment is emitted.
C5_BadRangeRejected ==
  (args.start < 7 \/ args.start > args.stop) =>
    /\ pc \in {"new", "failed"}
    /\ pc = "failed" => thrown = "primesieve_error"
    /\ DOMAIN heap = {} /\ freed = <<>>
    /\ eratSmall_ = NULL /\ eratMedium_ = NULL /\ eratBig_ = NULL
    /\ sieve_ = NULL
    /\ emitted = <<>>

\* start > stop with a stop whose square root is above the pre-sieve limit
C5_Witness ==
  /\ pc = "failed" /\ thrown = "primesieve_error"
  /\ args.start >= 7 /\ args.start > args.stop
  /\ sqrtStop_ > preSieve_

\* the number of times address a was handed to delete
TimesFreed(a) == Cardinality({k \in 1..Len(freed) : freed[k] = a})

\* the bit of number n as the pre-sieve pattern and the two boundary masks
\* alone leave it, in the segment that starts at low, byte j
PatternAndMasks(low, j, n) ==
  /\ start_ <= n /\ n <= stop_
  /\ \/ low <= start_ /\ j = 0 /\ start_ <= preSieve_
     \/ \A p \in PreSievePrimes(preSieve_) : n % p # 0

\* C6: after a successful construction the tiers form a prefix chain
\* decided by sqrtStop: small iff sqrtStop > pre-sieve limit, medium iff
\* small and sqrtStop > small.getLimit(), big iff medium and sqrtStop >
\* medium.getLimit(); without a small tier there is no tier at all and
\* every emitted byte is the pre-sieve pattern under the boundary masks.
C6_TierCascade ==
  (pc \notin {"new", "failed", "destroyed"}) =>
    /\ (eratSmall_ # NULL) <=> (sqrtStop_ > preSieve_)
    /\ (eratMedium_ # NULL) <=>
         (eratSmall_ # NULL /\ sqrtStop_ > getLimit([heap |-> heap], eratSmall_))
    /\ (eratBig_ # NULL) <=>
         (eratMedium_ # NULL /\ sqrtStop_ > getLimit([heap |-> heap], eratMedium_))
    /\ {eratSmall_, eratMedium_, eratBig_} \ {NULL} \subseteq DOMAIN heap
    /\ ~(sqrtStop_ > preSieve_) =>
         /\ eratSmall_ = NULL /\ eratMedium_ = NULL /\ eratBig_ = NULL
         /\ \A k \in 1..Len(emitted) :
              \A j \in 0..(emitted[k].size - 1) : \A i \in 0..7 :
                BitSet(emitted[k].sieve[j], i) <=>
                  PatternAndMasks(emitted[k].low, j,
                                  NumberOf(emitted[k].low, j, i))

\* sqrtStop equals getLimit() of the small tier: the small tier is the last
C6_Witness ==
  /\ pc = "done"
  /\ eratSmall_ # NULL /\ eratMedium_ = NULL
  /\ sqrtStop_ = getLimit([heap |-> heap], eratSmall_)

\* C7: when the construction of a tier fails, every tier constructed
\* before it has been deleted exactly once when the constructor throws,
\* nothing stays allocated, and the sieve array was never allocated.
C7_TierFailureReleasesAll ==
  (pc = "failed" /\ fault \in {AddrSmall, AddrMedium, AddrBig}) =>
    /\ thrown = "bad_alloc"
    /\ DOMAIN heap = {}
    /\ \A a \in {AddrSmall, AddrMedium, AddrBig} :
         TimesFreed(a) = IF a \in {eratSmall_, eratMedium_, eratBig_}
                         THEN 1 ELSE 0
    /\ sieve_ = NULL /\ TimesFreed(AddrSieve) = 0

\* the big tier fails after the small and the medium tier were constructed
C7_Witness ==
  /\ pc = "failed" /\ fault = AddrBig
  /\ eratSmall_ = AddrSmall /\ eratMedium_ = AddrMedium /\ eratBig_ = NULL
  /\ freed = <<AddrSmall, AddrMedium>>

\* C8: when the allocation of the sieve array fails, no tier outlives the
\* failed construction.
C8_ArrayFailureReleasesTiers ==
  (pc = "failed" /\ fault = AddrSieve) => DOMAIN heap = {}

\* C9: two runs over the same range with different sieve sizes report the
\* same numbers.
C9_SizeIndependent ==
  (pc = "done" /\ StopInRange) =>
    \A r \in 1..Len(runs) : runs[r].numbers = EmittedNumbers(emitted)

\* the second run has finished with another number of segments than the
\* first, and both reported something
C9_Witness ==
  /\ pc = "done" /\ StopInRange
  /\ Len(runs) = 1
  /\ runs[1].sieveSize # AllocatedSize
  /\ runs[1].segments # Len(emitted)
  /\ runs[1].segments >= 2 /\ Len(emitted) >= 2
  /\ EmittedNumbers(emitted) # {}

Coprime30(n) == n % 2 # 0 /\ n % 3 # 0 /\ n % 5 # 0

\* C11: a range of one number n >= 7 that is not coprime to 30 (10..10 is
\* one) is no error: the constructor does not throw, finish() emits one
\* segment of one byte, and that byte is zero; the lower and the upper mask
\* alone clear it, whatever byte the pattern and the tiers left.
C11_EmptyResult ==
  (pc = "done" /\ StopInRange /\ start_ = stop_ /\ ~Coprime30(start_)) =>
    /\ thrown = "none"
    /\ Len(emitted) = 1
    /\ emitted[1].size = 1
    /\ emitted[1].sieve[0] = 0
    /\ EmittedNumbers(emitted) = {}
    /\ \A n \in 7..36 : ~Coprime30(n) =>
         \A byte \in 0..255 :
           UpperMask(LowerMask(byte, n, preSieve_), n) = 0

\* the run over 10..10 has finished without an exception and emitted its
\* one segment
C11_Witness ==
  /\ pc = "done" /\ thrown = "none"
  /\ args.start = 10 /\ args.stop = 10
  /\ Len(emitted) = 1
  /\ emitted[1].sieve[0] = 0

\* C12: for 7..31, whatever the sieve size and the pre-sieve limit, no tier
\* is constructed, and finish() emits exactly one segment of one byte with
\* all 8 bits set (7, 11, 13, 17, 19, 23, 29, 31): neither mask clears a bit.
C12_AllBitsSet ==
  (args.start = 7 /\ args.stop = 31) =>
    /\ pc \notin {"new", "failed"} =>
         eratSmall_ = NULL /\ eratMedium_ = NULL /\ eratBig_ = NULL
    /\ Len(emitted) <= 1
    /\ pc = "crossOffMultiples" => heap[sieve_][0] = 255
    /\ pc = "done" =>
         /\ Len(emitted) = 1
         /\ emitted[1].low = 0 /\ emitted[1].size = 1
         /\ emitted[1].sieve[0] = 255
         /\ EmittedNumbers(emitted) = {7, 11, 13, 17, 19, 23, 29, 31}

\* the run over 7..31 with the largest pre-sieve limit has finished
C12_Witness ==
  /\ pc = "done"
  /\ args.start = 7 /\ args.stop = 31 /\ args.preSieve = 23
  /\ emitted[1].sieve[0] = 255

\* the calls of ops made on the segment that starts at low, in order
CallsOn(low) == SelectSeq(ops, LAMBDA c : c.low = low)
\* the names of a sequence of calls
CallNames(calls) == [k \in 1..Len(calls) |-> calls[k].op]
\* the calls one segment gets, with the tiers this orchestrator has
SegmentCalls ==
  <<"preSieve">>
  \o (IF eratSmall_ = NULL THEN <<>>
      ELSE <<"eratSmall">>
           \o (IF eratMedium_ = NULL THEN <<>>
               ELSE <<"eratMedium">>
                    \o (IF eratBig_ = NULL THEN <<>> ELSE <<"eratBig">>)))
  \o <<"segmentProcessed">>
IsPrefix(a, b) ==
  Len(a) <= Len(b) /\ \A k \in 1..Len(a) : a[k] = b[k]
\* the calls segmentProcessed among ops
Callbacks == SelectSeq(ops, LAMBDA c : c.op = "segmentProcessed")

\* C13: the calls made on each segment, full or final, are in this order:
\* the pre-sieve, the crossOff of the small, the medium and the big tier
\* (each once, for the tiers that exist), then one segmentProcessed with
\* the array and its current length; once a segment was emitted no call is
\* made on it, and it is emitted before the next one is begun.
C13_CallOrder ==
  (pc \notin {"new", "failed"} /\ StopInRange) =>
    /\ \A k \in 1..Len(ops) :
         LET calls == CallsOn(ops[k].low)
             open == ops[k].low = segmentLow_
                       /\ pc \notin {"advance", "done", "destroyed"}
         IN  /\ IsPrefix(CallNames(calls), SegmentCalls)
             /\ ~open => CallNames(calls) = SegmentCalls
             /\ \A c \in 1..Len(calls) : calls[c].size = calls[1].size
    /\ \A k \in 1..(Len(ops) - 1) :
         /\ ops[k].low <= ops[k + 1].low
         /\ ops[k].op = "segmentProcessed" => ops[k].low < ops[k + 1].low
    /\ Len(Callbacks) = Len(emitted)
    /\ \A m \in 1..Len(emitted) :
         /\ emitted[m].low = Callbacks[m].low
         /\ emitted[m].size = Callbacks[m].size
    /\ pc \in {"advance", "done"} =>
         /\ emitted[Len(emitted)].sieve = heap[sieve_]
         /\ emitted[Len(emitted)].size = sieveSize_
         /\ emitted[Len(emitted)].low = segmentLow_

\* two segments or more were sieved with all three tiers: five calls each
C13_Witness ==
  /\ pc = "done" /\ StopInRange
  /\ eratBig_ # NULL
  /\ Len(emitted) >= 2
  /\ Len(ops) = 5 * Len(emitted)
  /\ CallNames(CallsOn(segmentLow_)) =
       <<"preSieve", "eratSmall", "eratMedium", "eratBig", "segmentProcessed">>

\* the segment emitted m-th was sieved inside the loop of finish(): it has
\* the configured size and its end was below stop
FullSegment(m) ==
  /\ emitted[m].size = AllocatedSize
  /\ emitted[m].low + AllocatedSize * NUMBERS_PER_BYTE + 1 < stop_
\* the states of finish()
Phase ==
  IF pc \in {"new", "failed"} THEN "None"
  ELSE IF pc \in {"done", "destroyed"} THEN "Done"
  ELSE IF last THEN "FinalSegment"
  ELSE IF pc = "finish" /\ emitted = <<>> THEN "Constructed"
  ELSE "Segmenting"
C14_Phases ==
  (pc \notin {"new", "failed"} /\ StopInRange) =>
    /\ Phase \in {"Constructed", "Segmenting", "FinalSegment"} =>
         \A m \in 1..Len(emitted) : FullSegment(m)
    /\ Phase = "Done" =>
         /\ Len(emitted) >= 1
         /\ \A m \in 1..(Len(emitted) - 1) : FullSegment(m)
         /\ ~FullSegment(Len(emitted))
         /\ emitted[Len(emitted)].size <= AllocatedSize
         /\ emitted[Len(emitted)].low + AllocatedSize * NUMBERS_PER_BYTE + 1
              >= stop_
C14_PhaseOrder ==
  StopInRange =>
    /\ Phase = "Constructed" =>
         Phase' \in {"Segmenting", "FinalSegment"} /\ emitted' = emitted
    /\ Phase = "Segmenting" => Phase' \in {"Segmenting", "FinalSegment"}
    /\ Phase = "FinalSegment" =>
         /\ Phase' \in {"FinalSegment", "Done"}
         /\ Len(emitted') <= Len(emitted) + 1
         /\ emitted' # emitted => Phase' = "Done"
    /\ Phase = "Done" /\ pc' # "new" =>
         Phase' = "Done" /\ emitted' = emitted

\* C14: for a valid input finish() terminates, and it goes from Constructed
\* through Segmenting (zero or more segments of the configured size, each
\* emitted while segmentHigh < stop) and FinalSegment (exactly one segment)
\* to Done, after which nothing is emitted.
C14_FinishTerminates ==
  /\ []C14_Phases
  /\ [][C14_PhaseOrder]_vars
  /\ (pc = "finish" /\ StopInRange) ~> (pc = "done")

\* finish() has returned after four segments of the configured size and a
\* shorter final one
C14_Witness ==
  /\ pc = "done" /\ StopInRange
  /\ Len(emitted) = 5
  /\ \A m \in 1..4 : FullSegment(m)
  /\ emitted[5].size < AllocatedSize

\* the window of the orchestrator: segmentLow_ is a multiple of 30 and
\* segmentHigh_ = segmentLow_ + sieveSize_ * 30 + 1, and every emitted
\* segment starts at a multiple of 30
C15_Window ==
  (pc \notin {"new", "failed"} /\ StopInRange) =>
    /\ segmentLow_ % NUMBERS_PER_BYTE = 0
    /\ segmentHigh_ = segmentLow_ + sieveSize_ * NUMBERS_PER_BYTE + 1
    /\ \A m \in 1..Len(emitted) : emitted[m].low % NUMBERS_PER_BYTE = 0
\* a step of one orchestrator of a valid range
C15_SameOrchestrator ==
  pc \notin {"new", "failed"} /\ pc' # "new" /\ StopInRange
C15_NeverDecrease ==
  C15_SameOrchestrator =>
    segmentLow_' >= segmentLow_ /\ segmentHigh_' >= segmentHigh_
C15_DecreaseOnlyForLast ==
  C15_SameOrchestrator =>
    /\ segmentLow_' >= segmentLow_
    /\ \/ segmentHigh_' >= segmentHigh_
       \/ /\ ~last /\ last'
          /\ segmentLow_' = segmentLow_
          /\ sieveSize_' < sieveSize_
          /\ segmentHigh_' >= stop_

\* C15 as stated: the window invariant holds after construction, at every
\* emission and after finish(), and segmentLow and segmentHigh never
\* decrease.
C15_WindowNeverDecreases ==
  []C15_Window /\ [][C15_NeverDecrease]_vars

\* C15, amended: the window invariant holds after construction, at every
\* emission and after finish(); segmentLow never decreases, and segmentHigh
\* never decreases inside the loop: it decreases only when it is recomputed
\* for a final segment shorter than the configured size, and stays >= stop.
C15_WindowShrinksOnce ==
  []C15_Window /\ [][C15_DecreaseOnlyForLast]_vars

\* finish() has returned after several segments, the last one shrunk, with
\* the window around the shrunk segment
C15_Witness ==
  /\ pc = "done" /\ StopInRange
  /\ Len(emitted) >= 3
  /\ sieveSize_ < AllocatedSize
  /\ segmentLow_ = emitted[Len(emitted)].low
  /\ segmentHigh_ = segmentLow_ + sieveSize_ * NUMBERS_PER_BYTE + 1
  /\ segmentHigh_ < emitted[Len(emitted) - 1].low
                      + 2 * AllocatedSize * NUMBERS_PER_BYTE + 1

\* the final length L = sieveSize_ once finish() has left its loop
C16_FinalLength ==
  StopInRange =>
    /\ pc # "undefined"
    /\ (pc \notin {"new", "failed"} /\ ~last) => sieveSize_ = AllocatedSize
    /\ (pc \notin {"new", "failed", "destroyed"}) =>
         ArraySize(heap[sieve_]) = AllocatedSize
    /\ last =>
         /\ 1 <= sieveSize_ /\ sieveSize_ <= AllocatedSize
         /\ segmentLow_ + NUMBERS_PER_BYTE * (sieveSize_ - 1) + 2 <= stop_
         /\ stop_ <= segmentLow_ + NUMBERS_PER_BYTE * sieveSize_ + 1
         /\ pc # "destroyed" =>
              /\ sieveSize_ - 1 \in DOMAIN heap[sieve_]
              /\ Padding(sieveSize_) \subseteq DOMAIN heap[sieve_]
              /\ \A j \in Padding(sieveSize_) :
                   sieveSize_ <= j /\ j < AllocatedSize
\* the length is written once: by the step that leaves the loop
C16_LengthWrittenOnce ==
  (StopInRange /\ pc # "new" /\ pc' # "new" /\ sieveSize_' # sieveSize_) =>
    ~last /\ last' /\ pc = "finish"

\* C16: the final length L is between 1 and the allocated size, byte L - 1
\* is the byte of the 30-block of stop (segmentLow + 30*(L-1) + 2 <= stop
\* <= segmentLow + 30*L + 1), so the upper mask at L - 1 and the padding
\* writes from L to the next multiple of 8 stay inside the array; the
\* length changes only this once.
C16_FinalLengthInBounds ==
  []C16_FinalLength /\ [][C16_LengthWrittenOnce]_vars

\* the upper mask is about to be applied to a final segment that is
\* shorter than the array and not a multiple of 8 bytes long, after full
\* segments
C16_Witness ==
  /\ pc = "mask" /\ StopInRange
  /\ Len(emitted) >= 1
  /\ sieveSize_ < AllocatedSize
  /\ Padding(sieveSize_) # {}

\* the constructor has returned and finish() has not begun
Constructed == pc = "finish" /\ emitted = <<>> /\ ~last

\* C17 as stated: construction sets segmentLow to the greatest multiple of
\* 30 at or below start, and segmentHigh = segmentLow + sieveSizeBytes*30 + 1.
C17_LowIsFloorOfStart ==
  Constructed =>
    /\ segmentLow_ = (start_ \div NUMBERS_PER_BYTE) * NUMBERS_PER_BYTE
    /\ StopInRange =>
         segmentHigh_ = segmentLow_ + AllocatedSize * NUMBERS_PER_BYTE + 1

\* C17, amended: construction sets segmentLow to the greatest multiple of
\* 30 at or below start - 2, so that start is one of segmentLow + 2 ..
\* segmentLow + 31 (a start with start % 30 of 0 or 1 belongs to the block
\* before its own), and segmentHigh = segmentLow + sieveSizeBytes*30 + 1.
C17_LowIsFloorOfStartMinus2 ==
  Constructed =>
    /\ segmentLow_ = ((start_ - 2) \div NUMBERS_PER_BYTE) * NUMBERS_PER_BYTE
    /\ segmentLow_ + 2 <= start_ /\ start_ <= segmentLow_ + 31
    /\ StopInRange =>
         segmentHigh_ = segmentLow_ + AllocatedSize * NUMBERS_PER_BYTE + 1

\* an orchestrator constructed for a start one above a multiple of 30
C17_Witness ==
  /\ Constructed
  /\ start_ > 31 /\ start_ % NUMBERS_PER_BYTE = 1
  /\ segmentLow_ = start_ - 31

\* the index the upper mask loop of finish() ends with
UpperMaskIndex == UpperMaskLoop(0, getByteRemainder(stop_))
\* the upper mask clears no bit of a number <= stop in the last byte
C18_KeepsUpToStop ==
  \A byte \in 0..255 : \A i \in 0..7 :
    (BitSet(byte, i) /\ NumberOf(segmentLow_, sieveSize_ - 1, i) <= stop_) =>
      BitSet(UpperMask(byte, stop_), i)

\* C18 as stated: for a stop with stop % 30 = 0 (remainder 30) the upper
\* mask loop runs to exhaustion, and the mask clears no bit of a number
\* <= stop.
C18_ExhaustedAtRemainder30 ==
  (pc = "mask" /\ StopInRange /\ stop_ % NUMBERS_PER_BYTE = 0) =>
    /\ getByteRemainder(stop_) = 30
    /\ UpperMaskIndex = 8
    /\ C18_KeepsUpToStop

\* C18, amended: the upper mask loop runs to exhaustion for a stop with
\* remainder 31 (stop % 30 = 1), and then the mask clears nothing; for
\* remainder 30 (stop % 30 = 0) it breaks at the last table entry, 31 > 30,
\* and the mask clears exactly bit 7, the bit of stop + 1; in both cases
\* no bit of a number <= stop is cleared.
C18_ExhaustedAtRemainder31 ==
  (pc = "mask" /\ StopInRange) =>
    /\ stop_ % NUMBERS_PER_BYTE = 1 =>
         /\ getByteRemainder(stop_) = 31
         /\ UpperMaskIndex = 8
         /\ \A byte \in 0..255 : UpperMask(byte, stop_) = byte
         /\ C18_KeepsUpToStop
    /\ stop_ % NUMBERS_PER_BYTE = 0 =>
         /\ getByteRemainder(stop_) = 30
         /\ UpperMaskIndex = 7
         /\ NumberOf(segmentLow_, sieveSize_ - 1, 7) = stop_ + 1
         /\ \A byte \in 0..255 : UpperMask(byte, stop_) = byte % 128
         /\ C18_KeepsUpToStop

\* the upper mask is about to be applied for a stop of remainder 31 that is
\* a prime, its bit 7 still set
C18_Witness ==
  /\ pc = "mask" /\ StopInRange
  /\ stop_ % NUMBERS_PER_BYTE = 1 /\ stop_ > 31
  /\ BitSet(heap[sieve_][sieveSize_ - 1], 7)

\* the tier constructed last, NULL if there is none
LastTier ==
  IF eratBig_ # NULL THEN eratBig_
  ELSE IF eratMedium_ # NULL THEN eratMedium_
  ELSE eratSmall_
\* the configured fraction of the segment byte size
FractionOfSize(factor) == (AllocatedSize * factor[1]) \div factor[2]
\* an orchestrator with at least one tier
HasTiers == pc \notin {"new", "failed", "destroyed"} /\ eratSmall_ # NULL

\* C19 as stated: the last constructed tier, whichever it is, was given
\* the limit sqrtStop, and every tier that is not last its configured
\* fraction of the segment byte size.
C19_LastTierGetsSqrtStop ==
  HasTiers =>
    /\ heap[LastTier].limit = sqrtStop_
    /\ eratSmall_ # LastTier =>
         heap[eratSmall_].limit = FractionOfSize(FACTOR_ERATSMALL)
    /\ (eratMedium_ # NULL /\ eratMedium_ # LastTier) =>
         heap[eratMedium_].limit = FractionOfSize(FACTOR_ERATMEDIUM)

\* C19, amended: the limit a tier is given depends on which tier it is,
\* not on whether it is the last: the small and the medium tier are given
\* their configured fraction of the segment byte size, the big tier is
\* given sqrtStop.
C19_OnlyBigGetsSqrtStop ==
  HasTiers =>
    /\ heap[eratSmall_].limit = FractionOfSize(FACTOR_ERATSMALL)
    /\ eratMedium_ # NULL =>
         heap[eratMedium_].limit = FractionOfSize(FACTOR_ERATMEDIUM)
    /\ eratBig_ # NULL => heap[eratBig_].limit = sqrtStop_

\* the small tier is the last one and was given a limit other than sqrtStop
C19_Witness ==
  /\ HasTiers /\ pc = "done"
  /\ LastTier = eratSmall_
  /\ heap[eratSmall_].limit # sqrtStop_
  /\ heap[eratSmall_].limit = FractionOfSize(FACTOR_ERATSMALL)

\* stop_ - remainder - segmentLow_ in unbounded arithmetic
LastDistance == (stop_ - getByteRemainder(stop_)) - segmentLow_

\* C20: for a stop up to the documented limit and a sieve size up to the
\* maximum, segmentLow_ and segmentHigh_ are the values unbounded arithmetic
\* gives (no addition wraps modulo 2^64, no product of sieveSize_ and 30
\* modulo 2^32, so the loop test compares the true values), and the value
\* cast to uint_t for the final length is below 2^32: the cast loses no
\* bit.
C20_NoWrap ==
  (StopInRange /\ pc \notin {"new", "failed"}) =>
    /\ AllocatedSize <= MaxSieveKiB * BytesPerKiB
    /\ AllocatedSize * NUMBERS_PER_BYTE < UINT_MOD
    /\ segmentLow_ + sieveSize_ * NUMBERS_PER_BYTE + 1 < UINT64_MOD
    /\ segmentHigh_ = segmentLow_ + sieveSize_ * NUMBERS_PER_BYTE + 1
    /\ Constructed => segmentLow_ = start_ - getByteRemainder(start_)
    /\ \A m \in 1..Len(emitted) :
         emitted[m].low = (start_ - getByteRemainder(start_))
                          + (m - 1) * AllocatedSize * NUMBERS_PER_BYTE
    /\ pc = "advance" =>
         segmentHigh_ + sieveSize_ * NUMBERS_PER_BYTE < UINT64_MOD
    /\ (pc = "finish" /\ ~LoopTest(segmentHigh_, stop_)) =>
         0 <= LastDistance /\ LastDistance < UINT_MOD
    /\ last => sieveSize_ = LastDistance \div NUMBERS_PER_BYTE + 1

\* finish() has returned for a range of several segments that ends at the
\* documented limit
C20_Witness ==
  /\ pc = "done"
  /\ stop_ = StopLimit
  /\ Len(emitted) >= 2
  /\ segmentHigh_ >= stop_
  /\ sieveSize_ * NUMBERS_PER_BYTE > 2 ^ (UintBits \div 2)

====
